---- MODULE Spec2Model ----
(***************************************************************************)
(* A model of agentcore_rl_toolkit.client: RolloutFuture (one outstanding  *)
(* rollout polled by S3 HEAD with exponential backoff), RolloutClient (TPS *)
(* rate limiting and submission) and BatchResult.__iter__ (the batch       *)
(* engine).                                                                *)
(*                                                                         *)
(* Time.  The wall clock is an integer number of ticks, TicksPerSecond     *)
(* ticks to the second.  Durations the code computes (poll intervals, the  *)
(* minimum invoke interval, waits) are exact rationals in seconds.         *)
(* time.sleep(d) returns at the first tick that is at least d seconds      *)
(* later; further delay (I/O latency, the consumer of the iterator) is the *)
(* Tick action.  Local computation takes no time.                          *)
(***************************************************************************)
EXTENDS Integers, Sequences, FiniteSets, TLC

(***************************************************************************)
(* Bounds of the model                                                     *)
(***************************************************************************)
TicksPerSecond == 2
ClockStart == 1000
Horizon == 3
MaxPayloads == 2
MaxPolls == 4
MaxInvokes == 1
NumKeys == 2
MaxReturns == 4
MaxCalls == 2

MaxTime == ClockStart + Horizon

(***************************************************************************)
(* Exact rational arithmetic: <<n, d>> with d > 0 is n/d; <<1, 0>> is      *)
(* float("inf").                                                           *)
(***************************************************************************)
RECURSIVE GCD(_, _)
GCD(a, b) == IF b = 0 THEN a ELSE GCD(b, a % b)

Abs(x) == IF x < 0 THEN -x ELSE x

Norm(q) ==
  IF q[2] = 0 THEN <<1, 0>>
  ELSE LET g == GCD(Abs(q[1]), q[2]) IN <<q[1] \div g, q[2] \div g>>

Rat(n) == <<n, 1>>
Inf == <<1, 0>>
RLeq(a, b) == a[1] * b[2] <= b[1] * a[2]
RLt(a, b) == ~RLeq(b, a)
RMul(a, b) == Norm(<<a[1] * b[1], a[2] * b[2]>>)
RSub(a, b) == Norm(<<a[1] * b[2] - b[1] * a[2], a[2] * b[2]>>)
RMin(a, b) == IF RLeq(a, b) THEN a ELSE b
RMax(a, b) == IF RLeq(b, a) THEN a ELSE b

RECURSIVE RPow(_, _)
RPow(a, k) == IF k = 0 THEN Rat(1) ELSE RMul(a, RPow(a, k - 1))

\* Seconds between two clock readings.
Seconds(ticks) == Norm(<<ticks, TicksPerSecond>>)

\* Ticks that time.sleep(d) lets pass: the least whole number of ticks >= d.
SleepTicks(d) ==
  IF RLeq(d, Rat(0)) THEN 0
  ELSE (d[1] * TicksPerSecond + d[2] - 1) \div d[2]

(***************************************************************************)
(* Defaults of RolloutFuture.__init__ and RolloutClient.run_batch          *)
(***************************************************************************)
DefaultInitialInterval == <<1, 2>>
DefaultMaxInterval == <<30, 1>>
DefaultBackoffFactor == <<3, 2>>

\* Python's None and a present value: an optional value is <<>> or <<x>>.
None == <<>>
Some(x) == <<x>>

VARIABLES
  clock,            \* time.time(), in ticks
  tps_limit,        \* RolloutClient.tps_limit
  last_invoke_time, \* RolloutClient._last_invoke_time
  uuids,            \* number of uuid.uuid4() values drawn so far
  fut,              \* the RolloutFuture held by a caller: None or Some(future)
  polls,            \* HEAD outcomes seen by fut, in order
  pc,               \* where the caller is with run_batch and its iterator
  batch,            \* the BatchResult: None or Some(fields)
  pending,          \* pending_payloads: indexes not yet submitted, in order
  active,           \* active_futures, in dict order: [key, idx, future]
  poll_pos,         \* position of the poll loop in active
  completed_keys,   \* completed_keys of the current pass
  items,            \* the BatchItems yielded so far, in order
  submitted,        \* submissions made in the current pass of the outer loop
  calls,            \* calls issued to the runtime and the object store
  returns,          \* what the caller's calls of the future's methods gave
  rcall,            \* the result() call in progress, if any
  config,           \* the arguments the client was constructed with
  exchanges,        \* the requests sent to the entrypoint, with its replies
  tasks,            \* the background tasks the entrypoint created
  puts,             \* the put_object calls of the server, in order
  arn,              \* the agent_runtime_arn handed to RolloutClient(...)
  built             \* what RolloutClient(...) made of arn, None before it ran

vars == <<clock, tps_limit, last_invoke_time, uuids, fut, polls, pc, batch,
          pending, active, poll_pos, completed_keys, items, submitted, calls, returns,
          rcall, config, exchanges, tasks, puts, arn, built>>

clientVars == <<tps_limit, last_invoke_time, uuids>>
futVars == <<fut, polls, returns, rcall>>
serverVars == <<config, exchanges>>
appVars == <<tasks, puts>>
ctorVars == <<arn, built>>
batchVars == <<pc, batch, pending, active, poll_pos, completed_keys, items, submitted>>

(***************************************************************************)
(* RolloutFuture                                                           *)
(***************************************************************************)
RolloutFuture(s3_bucket, result_key, initial_interval, max_interval, backoff_factor) ==
  [ s3_bucket        |-> s3_bucket,
    result_key       |-> result_key,
    result           |-> None,
    done             |-> FALSE,
    poll_interval    |-> initial_interval,
    initial_interval |-> initial_interval,
    max_interval     |-> max_interval,
    backoff_factor   |-> backoff_factor,
    last_poll_time   |-> 0 ]

\* The future _rate_limited_invoke returns for a reply naming `key`.
InvokeFuture(key) ==
  RolloutFuture("bucket", key, DefaultInitialInterval, DefaultMaxInterval,
                DefaultBackoffFactor)

\* What the object store can answer to a HEAD and to a GET (the GET's
\* outcome includes the parsing of the body).
HeadOutcomes == {"ok", "404", "error"}
GetOutcomes == {"ok", "error"}

\* The same for a caller's own future: the object may also hold the JSON
\* document `null`, which json.loads returns as None.
BodyOutcomes == GetOutcomes \cup {"null"}

\* The document stored under a key, as json.loads returns it.
DocOf(key) == [result |-> key]

DoneReturnBug(f, head) ==
  IF head = "ok" THEN "true"
  ELSE IF head = "404" THEN "false"
  ELSE "raise"

\* The value done() returns for the HEAD outcome `head`, or "raise".
DoneReturn(f, head) ==
  IF f.done THEN "true"
  ELSE IF head = "ok" THEN "true"
  ELSE IF head = "404" THEN "false"
  ELSE "raise"

BackoffBug(f) == RMul(f.poll_interval, f.backoff_factor)

\* poll_interval after one more 404.
Backoff(f) == RMin(RMul(f.poll_interval, f.backoff_factor), f.max_interval)

DoneBug(f, head, now) ==
  IF f.done THEN f
  ELSE IF head = "ok" THEN [f EXCEPT !.done = TRUE]
  ELSE [f EXCEPT !.last_poll_time = now, !.poll_interval = Backoff(f)]

\* The future after done() has run with HEAD outcome `head` at time now.
Done(f, head, now) ==
  IF f.done THEN f
  ELSE IF head = "ok" THEN [f EXCEPT !.done = TRUE]
  ELSE IF head = "404"
    THEN [f EXCEPT !.last_poll_time = now, !.poll_interval = Backoff(f)]
  ELSE f

\* str(e) of the exception a failed get_object or json.loads raises.
GetError == "GetObject failed"

HasResultBug(f) == FALSE

\* `if self._result is not None`
HasResult(f) == f.result # None

\* The future after result() has run on a future that is done, the GET
\* having the outcome `get`; a body of `null` is parsed to None, which is
\* what _result holds already.
Result(f, get) ==
  IF HasResult(f) THEN f
  ELSE IF get = "ok" THEN [f EXCEPT !.result = Some(DocOf(f.result_key))]
  ELSE f

time_until_next_pollBug(f, now) == IF f.done THEN Inf ELSE Rat(0)

\* max(0, poll_interval - (now - last_poll_time)), inf once done.
time_until_next_poll(f, now) ==
  IF f.done THEN Inf
  ELSE RMax(Rat(0), RSub(f.poll_interval, Seconds(now - f.last_poll_time)))

ready_to_pollBug(f, now) == RLt(time_until_next_poll(f, now), Rat(0))

ready_to_poll(f, now) == RLeq(time_until_next_poll(f, now), Rat(0))

(***************************************************************************)
(* A future constructed and polled directly by a caller                    *)
(***************************************************************************)
\* The arguments a caller constructs a future with; the defaults are what
\* _rate_limited_invoke constructs the future it returns with.
InitialIntervals == {DefaultInitialInterval, <<1, 1>>, <<12, 1>>}
MaxIntervals == {DefaultMaxInterval, <<10, 1>>, <<3, 1>>}
BackoffFactors == {DefaultBackoffFactor, <<2, 1>>, <<1, 1>>}
\* Time passes: I/O latency, or the caller doing something else.
Tick ==
  /\ clock < MaxTime
  /\ pc \in {"fill", "poll"} \/ (pc = "idle" /\ calls # <<>>) \/ fut # None
  /\ clock' = clock + 1
  /\ UNCHANGED <<clientVars, futVars, serverVars, appVars, ctorVars, batchVars, calls>>

FutureNew ==
  /\ fut = None
  /\ \E i \in InitialIntervals, m \in MaxIntervals, b \in BackoffFactors :
       fut' = Some(RolloutFuture("bucket", 1, i, m, b))
  /\ polls' = <<>>
  /\ returns' = <<>>
  /\ rcall' = None
  /\ UNCHANGED <<clock, clientVars, serverVars, appVars, ctorVars, batchVars, calls>>

\* What a call of a method of the future gave its caller: ret is "true" or
\* "false" (done), "value" (result, with the value returned) or "raise" (with
\* the exception); elapsed is the time the call took, in ticks; heads and gets
\* count the requests the call issued.
Return(op, timeout, elapsed, ret, error, value, heads, gets) ==
  [op |-> op, timeout |-> timeout, elapsed |-> elapsed, ret |-> ret,
   error |-> error, value |-> value, heads |-> heads, gets |-> gets]

\* The caller calls fut.done(); the object store answers the HEAD.
FutureDone ==
  /\ fut # None
  /\ rcall = None
  /\ Len(polls) < MaxPolls
  /\ Len(returns) < MaxReturns
  /\ \E head \in HeadOutcomes :
       LET ret == DoneReturn(fut[1], head)
       IN  /\ fut' = Some(Done(fut[1], head, clock))
           /\ polls' = IF fut[1].done THEN polls ELSE Append(polls, head)
           /\ returns' = Append(returns,
                Return("done", None, 0, ret,
                       IF ret = "raise" THEN "ClientError" ELSE "", None,
                       IF fut[1].done THEN 0 ELSE 1, 0))
  /\ UNCHANGED <<clock, clientVars, rcall, serverVars, appVars, ctorVars, batchVars, calls>>

\* A caller holds the future client.invoke returned for a reply naming key 1.
FutureInvoked ==
  /\ fut = None
  /\ fut' = Some(InvokeFuture(1))
  /\ polls' = <<>>
  /\ returns' = <<>>
  /\ rcall' = None
  /\ UNCHANGED <<clock, clientVars, serverVars, appVars, ctorVars, batchVars, calls>>

\* The caller calls fut.cancel(): RolloutFuture defines no such method, and
\* the attribute lookup raises.
FutureCancel ==
  /\ fut # None
  /\ rcall = None
  /\ Len(returns) < MaxCalls
  /\ returns' = Append(returns,
       Return("cancel", None, 0, "raise", "AttributeError", None, 0, 0))
  /\ UNCHANGED <<clock, clientVars, fut, polls, rcall, serverVars, appVars, ctorVars, batchVars, calls>>

\* The timeouts a caller passes to result(): None, 0 and half a second.
Timeouts == {None, Some(Rat(0)), Some(<<1, 2>>)}

\* `if timeout and (time.time() - start) > timeout`
TimedOut(timeout, start, now) ==
  /\ timeout # None
  /\ timeout[1] # Rat(0)
  /\ RLt(timeout[1], Seconds(now - start))

\* The caller calls fut.result(timeout): the cached result is returned at
\* once, otherwise the polling loop is entered.
FutureResult ==
  /\ fut # None
  /\ rcall = None
  /\ Len(returns) < MaxCalls
  /\ \E timeout \in Timeouts :
       IF HasResult(fut[1])
         THEN /\ returns' = Append(returns,
                   Return("result", timeout, 0, "value", "",
                          fut[1].result, 0, 0))
              /\ UNCHANGED rcall
         ELSE /\ rcall' = Some([timeout |-> timeout, start |-> clock, heads |-> 0,
                                  checked |-> None])
              /\ UNCHANGED returns
  /\ UNCHANGED <<clock, clientVars, fut, polls, serverVars, appVars, ctorVars, batchVars, calls>>

\* One pass of the loop of result(): done(), then the GET, or the timeout
\* check and the sleep of the current poll interval.
ResultAttempt ==
  /\ rcall # None
  /\ fut[1].done \/ Len(polls) < MaxPolls
  /\ \E head \in HeadOutcomes :
       LET f == fut[1]
           r == rcall[1]
           f1 == Done(f, head, clock)
           heads == r.heads + (IF f.done THEN 0 ELSE 1)
       IN  /\ polls' = IF f.done THEN polls ELSE Append(polls, head)
           /\ CASE DoneReturn(f, head) = "raise" ->
                     /\ fut' = Some(f1)
                     /\ rcall' = None
                     /\ returns' = Append(returns,
                          Return("result", r.timeout, clock - r.start, "raise",
                                 "ClientError", None, heads, 0))
                     /\ UNCHANGED clock
                [] DoneReturn(f, head) = "true" ->
                     \E get \in BodyOutcomes :
                       /\ fut' = Some(Result(f1, get))
                       /\ rcall' = None
                       /\ returns' = Append(returns,
                            IF get = "error"
                              THEN Return("result", r.timeout, clock - r.start, "raise",
                                          "ClientError", None, heads, 1)
                              ELSE Return("result", r.timeout, clock - r.start, "value",
                                          "", Result(f1, get).result, heads, 1))
                       /\ UNCHANGED clock
                [] DoneReturn(f, head) = "false" ->
                     /\ fut' = Some(f1)
                     /\ IF TimedOut(r.timeout, r.start, clock)
                          THEN /\ rcall' = None
                               /\ returns' = Append(returns,
                                    Return("result", r.timeout, clock - r.start, "raise",
                                           "TimeoutError", None, heads, 0))
                               /\ UNCHANGED clock
                          ELSE /\ clock + SleepTicks(f1.poll_interval) <= MaxTime
                               /\ clock' = clock + SleepTicks(f1.poll_interval)
                               /\ rcall' = Some([r EXCEPT !.heads = heads,
                                                          !.checked = Some(clock)])
                               /\ UNCHANGED returns
  /\ UNCHANGED <<clientVars, serverVars, appVars, ctorVars, batchVars, calls>>

(***************************************************************************)
(* RolloutClient                                                           *)
(***************************************************************************)
TpsLimits == {1, 25}
Keys == 1 .. NumKeys

\* self._min_invoke_interval = 1.0 / tps_limit
min_invoke_interval == Norm(<<1, tps_limit>>)

RateLimitStampBug(now) == now

\* The instant at which _rate_limited_invoke, entered at `now`, stamps
\* _last_invoke_time: after the sleep that enforces the TPS limit, if any.
RateLimitStamp(now) ==
  LET elapsed == Seconds(now - last_invoke_time)
  IN  IF RLt(elapsed, min_invoke_interval)
        THEN now + SleepTicks(RSub(min_invoke_interval, elapsed))
        ELSE now

\* What invoke_agent_runtime and the parsing of its reply can do: raise, or
\* return a reply with or without s3_bucket / result_key.
SubmitOutcomes ==
  {[kind |-> "raise", key |-> 0], [kind |-> "nokey", key |-> 0]}
    \cup {[kind |-> "ok", key |-> k] : k \in Keys}

\* str(e) of the exception a failed _rate_limited_invoke raises.
SubmitError(out) ==
  IF out.kind = "raise" THEN "ACR invocation failed" ELSE "'s3_bucket'"

Uuid(n) == <<"uuid", n>>

SubmitCall(idx, session_id, time, out) ==
  [op |-> "submit", idx |-> idx, key |-> out.key, session |-> Some(session_id),
   time |-> time, outcome |-> out.kind]

StoreCall(op, idx, key, time, outcome) ==
  [op |-> op, idx |-> idx, key |-> key, session |-> None,
   time |-> time, outcome |-> outcome]

\* client.invoke(payload) called directly, session_id and input_id left to
\* be generated; the caller drops the future it gets, so that one key stands
\* for every key the reply may name.
Invoke ==
  /\ pc = "idle"
  /\ Len(calls) < MaxInvokes
  /\ RateLimitStamp(clock) <= MaxTime
  /\ \E out \in {o \in SubmitOutcomes : o.key <= 1} :
       LET stamp == RateLimitStamp(clock)
       IN  /\ clock' = stamp
           /\ last_invoke_time' = stamp
           /\ uuids' = uuids + 2
           /\ calls' = Append(calls, SubmitCall(-1, Uuid(uuids + 1), stamp, out))
  /\ UNCHANGED <<tps_limit, futVars, serverVars, appVars, ctorVars, batchVars>>

(***************************************************************************)
(* BatchResult                                                             *)
(***************************************************************************)
MaxConcurrents == 0 .. 2
BatchIntervals ==
  { [initial_interval |-> <<1, 4>>, max_interval |-> <<3, 4>>, backoff_factor |-> <<2, 1>>] }

B == batch[1]

BatchItem(success, result, error, index) ==
  [success |-> success, result |-> result, error |-> error, index |-> index]

ResultItemBug(idx, key, get) ==
  IF get = "ok" THEN BatchItem(TRUE, Some(DocOf(key)), None, idx)
  ELSE BatchItem(FALSE, None, Some(GetError), -1)

\* What the poll loop yields for a future that is done: `result = future.result()`
\* and a success item, or a failure item for the exception result() raised.
ResultItem(idx, key, get) ==
  IF get = "ok" THEN BatchItem(TRUE, Some(DocOf(key)), None, idx)
  ELSE BatchItem(FALSE, None, Some(GetError), idx)

LoopHeadBug(p, a) == IF p # <<>> THEN "fill" ELSE "done"

\* `while pending_payloads or active_futures`
LoopHead(p, a) == IF p # <<>> \/ a # <<>> THEN "fill" ELSE "done"

\* active_futures[key] = (idx, future): a key already present keeps its place.
ActivePut(a, key, idx, f) ==
  LET e == [key |-> key, idx |-> idx, future |-> f]
  IN  IF \E j \in 1 .. Len(a) : a[j].key = key
        THEN [j \in 1 .. Len(a) |-> IF a[j].key = key THEN e ELSE a[j]]
        ELSE Append(a, e)

\* The futures left after `del active_futures[key]` for the completed keys.
Reaped(a, ks) ==
  SelectSeq(a, LAMBDA e : \A j \in 1 .. Len(ks) : ks[j] # e.key)

MinWaitBug(a, now) == time_until_next_poll(a[Len(a)].future, now)

\* min(f.time_until_next_poll() for _, f in active_futures.values())
RECURSIVE MinWait(_, _)
MinWait(a, now) ==
  IF Len(a) = 1 THEN time_until_next_poll(a[1].future, now)
  ELSE RMin(time_until_next_poll(a[1].future, now), MinWait(Tail(a), now))

\* client.run_batch(payloads, max_concurrent_sessions, ...) and the start of
\* the iteration over its BatchResult.  run_batch has no `timeout` parameter:
\* a call that passes one is rejected with TypeError.
RunBatch ==
  /\ pc = "idle"
  /\ \E n \in 0 .. MaxPayloads, mc \in MaxConcurrents, iv \in BatchIntervals,
        timeout \in BOOLEAN :
       IF timeout
         THEN /\ pc' = "rejected"
              /\ batch' = Some([n |-> n, max_concurrent |-> mc, timeout |-> TRUE] @@ iv)
              /\ UNCHANGED pending
         ELSE /\ batch' = Some([n |-> n, max_concurrent |-> mc, timeout |-> FALSE] @@ iv)
              /\ pending' = [i \in 1 .. n |-> i - 1]
              /\ pc' = LoopHead(pending', <<>>)
  /\ submitted' = 0
  /\ UNCHANGED <<clock, clientVars, futVars, serverVars, appVars, ctorVars, active, poll_pos,
                 completed_keys, items, calls>>

FillGuardBug == pending # <<>> /\ Len(active) <= B.max_concurrent

\* `while pending_payloads and len(active_futures) < self.max_concurrent`
FillGuard == pending # <<>> /\ Len(active) < B.max_concurrent

NextPendingBug == pending[Len(pending)]

\* pending_payloads.pop(0)
NextPending == Head(pending)

PendingAfterBug(idx, out) ==
  IF out.kind = "ok" THEN SelectSeq(pending, LAMBDA i : i # idx) ELSE pending

\* pending_payloads after the pop and the submission: the payload is gone
\* whatever the outcome of the submission.
PendingAfter(idx, out) == SelectSeq(pending, LAMBDA i : i # idx)

BatchFutureBug(key) == InvokeFuture(key)

\* The future of a batch submission: the one _rate_limited_invoke returns,
\* its backoff settings overridden with those of the batch.
BatchFuture(key) ==
  [InvokeFuture(key) EXCEPT !.poll_interval = B.initial_interval,
                            !.initial_interval = B.initial_interval,
                            !.max_interval = B.max_interval,
                            !.backoff_factor = B.backoff_factor]

\* One pass of the fill loop: pop a payload and submit it.
Submit ==
  /\ pc = "fill"
  /\ FillGuard
  /\ RateLimitStamp(clock) <= MaxTime
  /\ \E out \in SubmitOutcomes :
       LET idx == NextPending
           stamp == RateLimitStamp(clock)
           future == BatchFuture(out.key)
       IN  /\ pending' = PendingAfter(idx, out)
           /\ clock' = stamp
           /\ last_invoke_time' = stamp
           /\ uuids' = uuids + 2
           /\ calls' = Append(calls, SubmitCall(idx, Uuid(uuids + 1), stamp, out))
           /\ IF out.kind = "ok"
                THEN /\ active' = ActivePut(active, out.key, idx, future)
                     /\ UNCHANGED items
                ELSE /\ items' = Append(items,
                          BatchItem(FALSE, None, Some(SubmitError(out)), idx))
                     /\ UNCHANGED active
  /\ submitted' = submitted + 1
  /\ UNCHANGED <<tps_limit, futVars, serverVars, appVars, ctorVars, pc, batch, poll_pos, completed_keys>>

\* The fill loop ends; the poll loop starts over active_futures.items().
StartPoll ==
  /\ pc = "fill"
  /\ ~FillGuard
  /\ pc' = "poll"
  /\ poll_pos' = 1
  /\ completed_keys' = <<>>
  /\ UNCHANGED <<clock, clientVars, futVars, serverVars, appVars, ctorVars, batch, pending, active, items,
                 submitted, calls>>

\* One pass of the poll loop: `if future.ready_to_poll() and future.done()`.
Poll ==
  /\ pc = "poll"
  /\ poll_pos <= Len(active)
  /\ LET e == active[poll_pos]
         f == e.future
     IN  IF ~ready_to_poll(f, clock)
           THEN /\ poll_pos' = poll_pos + 1
                /\ UNCHANGED <<pc, active, completed_keys, items, calls>>
           ELSE \E head \in HeadOutcomes :
                  LET f1 == Done(f, head, clock)
                      hc == StoreCall("head", e.idx, e.key, clock, head)
                  IN  CASE DoneReturn(f, head) = "raise" ->
                             \* the ClientError leaves the generator
                             /\ pc' = "raised"
                             /\ calls' = Append(calls, hc)
                             /\ UNCHANGED <<poll_pos, active, completed_keys, items>>
                        [] DoneReturn(f, head) = "false" ->
                             /\ active' = [active EXCEPT ![poll_pos].future = f1]
                             /\ poll_pos' = poll_pos + 1
                             /\ calls' = Append(calls, hc)
                             /\ UNCHANGED <<pc, completed_keys, items>>
                        [] DoneReturn(f, head) = "true" ->
                             \E get \in GetOutcomes :
                               /\ completed_keys' = Append(completed_keys, e.key)
                               /\ calls' = calls \o
                                    <<hc, StoreCall("get", e.idx, e.key, clock, get)>>
                               /\ poll_pos' = poll_pos + 1
                               /\ pc' = pc
                               /\ active' = [active EXCEPT ![poll_pos].future =
                                                 Result(f1, get)]
                               /\ items' = Append(items, ResultItem(e.idx, e.key, get))
  /\ UNCHANGED <<clock, clientVars, futVars, serverVars, appVars, ctorVars, batch, pending, submitted>>

\* A pass of the poll loop in a run where every HEAD is answered with
\* success or 404 and the objects appear in time: a 404 comes only while the
\* clock leaves room for the wait it starts and for the submissions to come.
PollAnswered ==
  /\ Poll
  /\ \A j \in Len(calls) + 1 .. Len(calls') :
       calls'[j].op = "head" =>
         /\ calls'[j].outcome # "error"
         /\ calls'[j].outcome = "404" =>
              clock + SleepTicks(active'[poll_pos].future.poll_interval) + Len(pending)
                <= MaxTime

\* The poll loop is over: remove the completed keys, sleep until the next
\* future is ready to poll, and test the condition of the outer loop.
Reap ==
  /\ pc = "poll"
  /\ poll_pos > Len(active)
  /\ LET left == Reaped(active, completed_keys)
         min_wait == IF left # <<>> /\ completed_keys = <<>>
                       THEN MinWait(left, clock) ELSE Rat(0)
     IN  /\ clock + SleepTicks(min_wait) <= MaxTime
         /\ clock' = clock + SleepTicks(min_wait)
         /\ active' = left
         /\ pc' = LoopHead(pending, left)
  /\ submitted' = 0
  /\ UNCHANGED <<clientVars, futVars, serverVars, appVars, ctorVars, batch, pending, poll_pos,
                 completed_keys, items, calls>>

(***************************************************************************)
(* The client against the server entrypoint                                *)
(***************************************************************************)
\* {**a, **b}: the keys of b win.
Merge(a, b) ==
  [k \in DOMAIN a \cup DOMAIN b |-> IF k \in DOMAIN b THEN b[k] ELSE a[k]]

\* A dict with no key.
EmptyDict == <<>>

\* The arguments of RolloutClient(...): base_url and model_id default to
\* None, extra_config to no keyword.
ClientConfig(base_url, model_id, extra_config) ==
  [exp_id |-> <<"exp">>, s3_bucket |-> "bucket", base_url |-> base_url,
   model_id |-> model_id, extra_config |-> extra_config]

DefaultConfig == ClientConfig(None, None, EmptyDict)

Configs ==
  {ClientConfig(u, m, x) : u \in {None, Some("http://vllm")},
                           m \in {None, Some("model")},
                           x \in {EmptyDict, [temperature |-> 7],
                                   [session_id |-> <<"sx">>]}}

RolloutConfigOfBug(session_id, input_id) ==
  Merge([exp_id |-> config.exp_id, session_id |-> session_id,
         input_id |-> input_id, s3_bucket |-> config.s3_bucket],
        config.extra_config)

\* The rollout config _rate_limited_invoke builds.
RolloutConfigOf(session_id, input_id) ==
  LET base == Merge([exp_id |-> config.exp_id, session_id |-> session_id,
                     input_id |-> input_id, s3_bucket |-> config.s3_bucket],
                    config.extra_config)
      with_url == IF config.base_url # None
                    THEN Merge(base, [base_url |-> config.base_url[1]]) ELSE base
  IN  IF config.model_id # None
        THEN Merge(with_url, [model_id |-> config.model_id[1]]) ELSE with_url

\* full_payload = {**payload, "_training": rollout_config}
FullPayload(payload, rollout_config) ==
  Merge(payload, [k \in {"_training"} |-> rollout_config])

\* The fields RolloutConfig.from_dict requires.
RequiredFields == {"exp_id", "session_id", "input_id", "s3_bucket"}

\* The field the KeyError of from_dict names: the first one, in the order the
\* constructor call reads them, that data lacks.
MissingFieldBug(data) == "exp_id"
MissingField(data) ==
  IF "exp_id" \notin DOMAIN data THEN "exp_id"
  ELSE IF "session_id" \notin DOMAIN data THEN "session_id"
  ELSE IF "input_id" \notin DOMAIN data THEN "input_id"
  ELSE "s3_bucket"

\* f"{exp_id}/{input_id}_{session_id}.json", an id being a sequence of tokens.
ResultKeyBug(rc) ==
  rc.exp_id \o <<"/">> \o rc.session_id \o <<"_">> \o rc.input_id \o <<".json">>
ResultKey(rc) ==
  rc.exp_id \o <<"/">> \o rc.input_id \o <<"_">> \o rc.session_id \o <<".json">>

\* What the entrypoint answers to a payload: the location of the result if
\* the payload carries a rollout config under "_rollout", a bare status if it
\* carries none, HTTP 500 if the config lacks a required field.
rollout_entrypoint_wrapper(payload) ==
  IF "_rollout" \in DOMAIN payload
    THEN IF RequiredFields \subseteq DOMAIN payload["_rollout"]
           THEN [status |-> "processing",
                 s3_bucket |-> payload["_rollout"].s3_bucket,
                 result_key |-> ResultKey(payload["_rollout"])]
           ELSE [error |-> "Missing required rollout config field",
                 field |-> MissingField(payload["_rollout"])]
    ELSE [status |-> "processing"]

\* What _rate_limited_invoke makes of the reply: invoke_agent_runtime raises
\* on HTTP 500, data["s3_bucket"] and data["result_key"] raise KeyError.
ReplyKind(reply) ==
  IF "error" \in DOMAIN reply THEN "raise"
  ELSE IF {"s3_bucket", "result_key"} \subseteq DOMAIN reply THEN "ok"
  ELSE "nokey"

\* The payloads a caller submits; the last carries a rollout config of its own.
Payloads ==
  { [prompt |-> "q"],
    [prompt |-> "q", answer |-> "42"],
    Merge([prompt |-> "q"],
          [k \in {"_rollout"} |->
             [exp_id |-> <<"exp0">>, session_id |-> <<"s0">>,
              input_id |-> <<"i0">>, s3_bucket |-> "bucket0"]]) }

\* The ids a caller may pass to invoke.
SessionArgs == {None, Some(<<"s1">>)}
InputArgs == {None, Some(<<"i1">>)}

\* client.invoke(payload, session_id, input_id) against the entrypoint.
InvokeEntrypoint ==
  /\ pc = "idle"
  /\ Len(exchanges) < MaxInvokes
  /\ RateLimitStamp(clock) <= MaxTime
  /\ \E payload \in Payloads, sid \in SessionArgs, iid \in InputArgs :
       LET stamp == RateLimitStamp(clock)
           drawn == IF sid = None THEN 1 ELSE 0
           session_id == IF sid = None THEN Uuid(uuids + 1) ELSE sid[1]
           input_id == IF iid = None THEN Uuid(uuids + drawn + 1) ELSE iid[1]
           rollout_config == RolloutConfigOf(session_id, input_id)
           full_payload == FullPayload(payload, rollout_config)
           reply == rollout_entrypoint_wrapper(full_payload)
       IN  /\ clock' = stamp
           /\ last_invoke_time' = stamp
           /\ uuids' = uuids + drawn + (IF iid = None THEN 1 ELSE 0)
           /\ exchanges' = Append(exchanges,
                [session |-> session_id, input |-> input_id,
                 config |-> rollout_config,
                 payload |-> full_payload, reply |-> reply])
           /\ calls' = Append(calls,
                [op |-> "submit", idx |-> -1, key |-> 0, session |-> Some(session_id),
                 time |-> stamp, outcome |-> ReplyKind(reply)])
           /\ IF ReplyKind(reply) = "ok"
                THEN /\ fut' = Some(RolloutFuture(reply.s3_bucket, reply.result_key,
                                      DefaultInitialInterval, DefaultMaxInterval,
                                      DefaultBackoffFactor))
                     /\ polls' = <<>>
                     /\ returns' = <<>>
                     /\ rcall' = None
                ELSE UNCHANGED futVars
  /\ UNCHANGED <<tps_limit, config, batchVars, appVars, ctorVars>>

(***************************************************************************)
(* The server: rollout_entrypoint and its background task                  *)
(***************************************************************************)
\* Python values a handler may return, each with its type.
PyDict(d) == [type |-> "dict", v |-> d]
PyList(l) == [type |-> "list", v |-> l]
PyNum(n) == [type |-> "num", v |-> n]
PyStr(s) == [type |-> "str", v |-> s]

MaxRequests == 1
MaxSteps == 2

\* A rollout config with every required field, and the model settings a
\* client may add to it.
CompleteConfig ==
  [exp_id |-> <<"exp">>, session_id |-> <<"s1">>, input_id |-> <<"i1">>,
   s3_bucket |-> "bucket"]

ModelFields == [base_url |-> "http://vllm", model_id |-> "model"]

Restrict(d, ks) == [k \in DOMAIN d \cap ks |-> d[k]]

\* The "_rollout" values of the requests: any part of a complete config, and
\* the model settings alone.
RolloutDicts ==
  { Restrict(CompleteConfig, ks) : ks \in SUBSET RequiredFields } \cup { ModelFields }

\* The payloads posted to the entrypoint: one without "_rollout", the others
\* with one.
Requests ==
  { [prompt |-> "q"] } \cup
  { Merge([prompt |-> "q"], [k \in {"_rollout"} |-> d]) : d \in RolloutDicts }

RolloutDictOfBug(payload) == Some(CompleteConfig)

\* payload.get("_rollout")
RolloutDictOf(payload) ==
  IF "_rollout" \in DOMAIN payload THEN Some(payload["_rollout"]) ELSE None

\* `if rollout_dict:` in the background task: a dict that is not empty.
HasRolloutConfigBug(rollout_dict) == FALSE
HasRolloutConfig(rollout_dict) ==
  rollout_dict # None /\ DOMAIN rollout_dict[1] # {}

\* The steps and the rewards handlers return.
StepLists == { [i \in 1 .. n |-> PyDict([turn |-> PyNum(i)])] : n \in 0 .. MaxSteps }
RewardLists == { [i \in 1 .. n |-> PyNum(i)] : n \in 0 .. MaxSteps + 1 }

RolloutDataValues == { PyStr("steps") } \cup { PyList(l) : l \in StepLists }
RewardsValues == { PyNum(1) } \cup { PyList(l) : l \in RewardLists }

Field(k, values) == { EmptyDict } \cup { [j \in {k} |-> x] : x \in values }

\* What a handler may set of the fields save_rollout has defaults for.
OwnFields ==
  { EmptyDict, [status_code |-> PyNum(404), stop_reason |-> PyStr("max_tokens")] }

\* The dicts a handler returns: each field present or not.
ReturnedDicts ==
  { Merge(Merge(rd, rw), own) :
      rd \in Field("rollout_data", RolloutDataValues),
      rw \in Field("rewards", RewardsValues),
      own \in OwnFields }

\* What the handler does: it raises, or it returns a value.
HandlerOutcomes ==
  { [kind |-> "raise", value |-> PyStr("boom")] } \cup
  { [kind |-> "return", value |-> PyStr("text")] } \cup
  { [kind |-> "return", value |-> PyDict(d)] : d \in ReturnedDicts }

\* The rewards after normalization: a value that is not a list becomes a
\* list of one.
NormalizedRewards(d) ==
  IF d["rewards"].type = "list" THEN d["rewards"] ELSE PyList(<<d["rewards"]>>)

\* The ValueError of _validate_and_normalize_rollout on the dict d, "" if it
\* raises none.
ValidationErrorBug(d) ==
  IF "rollout_data" \notin DOMAIN d
    THEN "Return value must include 'rollout_data' field"
  ELSE IF "rewards" \notin DOMAIN d
    THEN "Return value must include 'rewards' field"
  ELSE IF d["rollout_data"].type # "list" \/ Len(d["rollout_data"].v) = 0
    THEN "rollout_data must be a list with length >= 1"
  ELSE ""
ValidationError(d) ==
  IF "rollout_data" \notin DOMAIN d
    THEN "Return value must include 'rollout_data' field"
  ELSE IF "rewards" \notin DOMAIN d
    THEN "Return value must include 'rewards' field"
  ELSE IF d["rollout_data"].type # "list" \/ Len(d["rollout_data"].v) = 0
    THEN "rollout_data must be a list with length >= 1"
  ELSE IF /\ Len(NormalizedRewards(d).v) # 1
          /\ Len(NormalizedRewards(d).v) # Len(d["rollout_data"].v)
    THEN "rewards must be length 1 or match rollout_data length"
  ELSE ""

\* What _validate_and_normalize_rollout returns when it raises nothing.
Normalized(d) == [d EXCEPT !["rewards"] = NormalizedRewards(d)]

\* status_code and stop_reason as save_rollout leaves them: the handler's own
\* if the dict has them, the defaults if not.
WithDefaultsBug(d) ==
  Merge(d, [status_code |-> PyNum(200), stop_reason |-> PyStr("end_turn")])
WithDefaults(d) ==
  Merge([status_code |-> PyNum(200), stop_reason |-> PyStr("end_turn")], d)

\* The put_object call of save_rollout for the dict d: the body is the JSON
\* text of the dict after save_rollout added its fields, kept as the dict.
save_rollout(d, rollout_config, payload, result_key) ==
  LET key == IF result_key = None THEN ResultKey(rollout_config) ELSE result_key[1]
  IN  [bucket |-> rollout_config.s3_bucket,
       key |-> key,
       body |-> Merge(WithDefaults(d),
                      [input_id |-> rollout_config.input_id,
                       s3_bucket |-> rollout_config.s3_bucket,
                       result_key |-> key,
                       payload |-> payload])]

\* The dict the background task saves when it caught the exception e.
ErrorRollout(e) == [status_code |-> PyNum(500), stop_reason |-> PyStr(e)]

PutOutcomes == {"ok", "error"}

\* The exception the handler's outcome h ends in before anything is saved,
\* "" if none: the handler's own, "RL training runs must return a dictionary", or the
\* validation's. Results are looked at only with a rollout config.
TaskError(h, tracked) ==
  IF h.kind = "raise" THEN h.value.v
  ELSE IF ~tracked THEN ""
  ELSE IF h.value.type # "dict" THEN "RL training runs must return a dictionary"
  ELSE ValidationError(h.value.v)

\* The put_object calls of one run of rollout_background_task, in order: the
\* rollout, if there is one to save; the error rollout after an exception,
\* the one of a failed put included.
TaskPuts(t, payload, result_key, h, p1, p2) ==
  LET rollout_dict == RolloutDictOf(payload)
      tracked == HasRolloutConfig(rollout_dict)
      e == TaskError(h, tracked)
      put(path, d, outcome) ==
        [task |-> t, path |-> path, outcome |-> outcome] @@
        save_rollout(d, rollout_dict[1], payload, result_key)
  IN  IF ~tracked THEN <<>>
      ELSE IF e # "" THEN << put("failure", ErrorRollout(e), p1) >>
      ELSE IF p1 = "ok" THEN << put("success", Normalized(h.value.v), p1) >>
      ELSE << put("success", Normalized(h.value.v), p1),
              put("failure", ErrorRollout("put_object failed"), p2) >>

\* POST /invocations: the wrapper validates the rollout config, creates the
\* background task and answers; a config that does not validate is answered
\* with HTTP 500 before any task exists.
Post ==
  /\ Len(exchanges) < MaxRequests
  /\ \E payload \in Requests :
       LET reply == rollout_entrypoint_wrapper(payload)
           started == "error" \notin DOMAIN reply
       IN  /\ exchanges' = Append(exchanges,
                [payload |-> payload, reply |-> reply,
                 task |-> IF started THEN Len(tasks) + 1 ELSE 0])
           /\ tasks' = IF started
                THEN Append(tasks,
                       [payload |-> payload,
                        result_key |-> IF "result_key" \in DOMAIN reply
                                         THEN Some(reply.result_key) ELSE None,
                        state |-> "created", handler |-> None])
                ELSE tasks
  /\ UNCHANGED <<clock, clientVars, futVars, config, batchVars, calls, puts, ctorVars>>

\* The first request a server gets.
PostFirst == exchanges = <<>> /\ Post

\* rollout_background_task, from the handler's call to complete_async_task.
RolloutBackgroundTask ==
  \E t \in 1 .. Len(tasks), h \in HandlerOutcomes, p1, p2 \in PutOutcomes :
    /\ tasks[t].state = "created"
    /\ LET new == TaskPuts(t, tasks[t].payload, tasks[t].result_key, h, p1, p2)
           raised == \/ TaskError(h, HasRolloutConfig(RolloutDictOf(tasks[t].payload))) # ""
                     \/ \E i \in 1 .. Len(new) : new[i].outcome = "error"
       IN  /\ puts' = puts \o new
           /\ tasks' = [tasks EXCEPT ![t].state = IF raised THEN "failed" ELSE "completed",
                                     ![t].handler = Some(h)]
    /\ UNCHANGED <<clock, clientVars, futVars, serverVars, batchVars, calls, ctorVars>>

(***************************************************************************)
(* RolloutClient.__init__ and the region of the ARN                        *)
(***************************************************************************)
MaxArnLen == 7

\* The characters of an ARN: the separator and one other.
ArnChars == {":", "r"}

Arns == UNION { [1 .. n -> ArnChars] : n \in 0 .. MaxArnLen }

DefaultArn == <<"r", ":", "r", ":", "r", ":", "r">>

\* arn.split(":"): the fields between the separators, one more than there
\* are separators.
RECURSIVE Split(_)
Split(s) ==
  IF \A i \in 1 .. Len(s) : s[i] # ":" THEN << s >>
  ELSE LET i == CHOOSE j \in 1 .. Len(s) :
                  s[j] = ":" /\ \A k \in 1 .. j - 1 : s[k] # ":"
       IN  << SubSeq(s, 1, i - 1) >> \o Split(SubSeq(s, i + 1, Len(s)))

\* _parse_region_from_arn: the region, or None for the ValueError.
parse_region_from_arnBug(a) ==
  LET parts == Split(a)
  IN  IF Len(parts) < 3 \/ parts[3] = <<>> THEN None ELSE Some(parts[3])
parse_region_from_arn(a) ==
  LET parts == Split(a)
  IN  IF Len(parts) < 4 \/ parts[4] = <<>> THEN None ELSE Some(parts[4])

\* The client __init__ leaves: the region and the boto3 clients made with it,
\* or the ValueError of the parse, raised before either client is made.
RolloutClientInit(a) ==
  LET region == parse_region_from_arn(a)
  IN  IF region = None
        THEN [raised |-> "ValueError", region |-> None, clients |-> {}]
        ELSE [raised |-> "", region |-> region,
              clients |-> { [service |-> "bedrock-agentcore", region_name |-> region[1]],
                            [service |-> "s3", region_name |-> region[1]] }]

\* RolloutClient(agent_runtime_arn=arn, ...)
Construct ==
  /\ built = None
  /\ built' = Some(RolloutClientInit(arn))
  /\ UNCHANGED <<clock, clientVars, futVars, serverVars, appVars, batchVars, calls, arn>>

(***************************************************************************)
(* Specifications                                                          *)
(***************************************************************************)
\* The fields of a client made with one of the configurations cfgs, and a
\* server that got no request yet.
Fields(cfgs) ==
  /\ clock = ClockStart
  /\ tps_limit \in TpsLimits
  /\ last_invoke_time = 0
  /\ uuids = 0
  /\ fut = None
  /\ polls = <<>>
  /\ pc = "idle"
  /\ batch = None
  /\ pending = <<>>
  /\ active = <<>>
  /\ poll_pos = 1
  /\ completed_keys = <<>>
  /\ items = <<>>
  /\ submitted = 0
  /\ calls = <<>>
  /\ returns = <<>>
  /\ rcall = None
  /\ exchanges = <<>>
  /\ config \in cfgs
  /\ tasks = <<>>
  /\ puts = <<>>

\* The state after RolloutClient(...) with one of the configurations cfgs.
Constructed(cfgs) ==
  /\ Fields(cfgs)
  /\ arn = DefaultArn
  /\ built = Some(RolloutClientInit(DefaultArn))

Init == Constructed({DefaultConfig})

\* A client, calls of invoke, then one batch.
Next == Tick \/ Invoke \/ RunBatch \/ Submit \/ StartPoll \/ Poll \/ Reap

Spec == Init /\ [][Next]_vars

\* One batch run by a client with the default tps_limit.
InitBatch == Init /\ tps_limit = 25

NextBatch == Tick \/ RunBatch \/ Submit \/ StartPoll \/ Poll \/ Reap

SpecBatch == InitBatch /\ [][NextBatch]_vars

\* A submission in a run where the server names the object after the
\* submission: the key of an accepted payload is its own, as the session id
\* the key is built from is a fresh uuid4 for every submission.
SubmitKeyed ==
  /\ Submit
  /\ LET c == calls'[Len(calls')]
     IN  c.outcome = "ok" => c.key = c.idx + 1

\* The iteration of a batch carried to its end by the caller's loop, every
\* HEAD answered and every object there in time; time passes in sleeps.
NextIteration == RunBatch \/ SubmitKeyed \/ StartPoll \/ PollAnswered \/ Reap

SpecIteration ==
  /\ InitBatch
  /\ [][NextIteration]_vars
  /\ WF_vars(SubmitKeyed \/ StartPoll \/ PollAnswered \/ Reap)

\* A future made and polled by the caller.
NextFuture == Tick \/ FutureNew \/ FutureDone

SpecFuture == Init /\ [][NextFuture]_vars

\* The future of an invocation, with every method a caller may call on it.
NextResult ==
  Tick \/ FutureInvoked \/ FutureDone \/ FutureCancel \/ FutureResult \/ ResultAttempt

SpecResult == Init /\ [][NextResult]_vars

\* A client of any configuration calling invoke against the entrypoint.
InitServer == Constructed(Configs)

NextServer == Tick \/ InvokeEntrypoint

SpecServer == InitServer /\ [][NextServer]_vars

\* Requests posted to the entrypoint and the tasks it created for them.
NextApp == Post \/ RolloutBackgroundTask

SpecApp == Init /\ [][NextApp]_vars

\* One submission followed to its end: the event loop runs a task once
\* asyncio.create_task scheduled it, and tasks share no state.
NextSubmission == PostFirst \/ RolloutBackgroundTask

SpecSubmission ==
  Init /\ [][NextSubmission]_vars /\ WF_vars(RolloutBackgroundTask)

\* RolloutClient(...) called with any ARN.
InitArn ==
  /\ Fields({DefaultConfig})
  /\ arn \in Arns
  /\ built = None

NextArn == Construct

SpecArn == InitArn /\ [][NextArn]_vars

(***************************************************************************)
(* Properties of the batch engine                                          *)
(***************************************************************************)
SubmitCalls == SelectSeq(calls, LAMBDA c : c.op = "submit")
BatchSubmits == SelectSeq(calls, LAMBDA c : c.op = "submit" /\ c.idx >= 0)
ItemsOf(i) == {j \in 1 .. Len(items) : items[j].index = i}
Indexes == IF batch = None THEN {} ELSE 0 .. B.n - 1
Called(op, outcome, i) ==
  \E j \in 1 .. Len(calls) :
    calls[j].op = op /\ calls[j].outcome = outcome /\ calls[j].idx = i

\* C1: when the iteration of a batch over N payloads has run to its end, N
\* items have been yielded and every index of 0..N-1 occurs in exactly one.
C1_EveryIndexOnce ==
  pc = "done" =>
    /\ Len(items) = B.n
    /\ \A i \in Indexes : Cardinality(ItemsOf(i)) = 1

\* C2: a HEAD that failed with an error other than 404 does not end the
\* iteration: its job is reported by a failure item with its own index.
C2_HeadErrorIsolated ==
  \A i \in Indexes :
    Called("head", "error", i) =>
      /\ pc # "raised"
      /\ \E j \in ItemsOf(i) : ~items[j].success

\* C3: once a batch run with a per-job timeout is over, every job whose HEAD
\* never succeeded (and whose submission did not fail) has been yielded
\* exactly once, as a failure item whose error is the timeout.
C3_TimeoutItem ==
  (batch # None /\ B.timeout /\ pc \in {"done", "raised", "rejected"}) =>
    \A i \in Indexes :
      (~Called("head", "ok", i) /\ ~Called("submit", "raise", i)
         /\ ~Called("submit", "nokey", i)) =>
        /\ Cardinality(ItemsOf(i)) = 1
        /\ \A j \in ItemsOf(i) :
             ~items[j].success /\ items[j].error = Some("Timeout")

\* C4: the active set never holds more than max_concurrent_sessions futures.
C4_ActiveBounded ==
  batch # None => Len(active) <= B.max_concurrent

\* The active set is full while a payload is still waiting.
C4_Witness ==
  /\ batch # None
  /\ B.max_concurrent >= 1
  /\ Len(active) = B.max_concurrent
  /\ pending # <<>>

\* C5: a submission that raised is reported by a failure item with the
\* payload's index, the text of the exception and elapsed = 0, and adds no
\* future to the active set.
C5_SubmitFailureItem ==
  \A i \in Indexes :
    Called("submit", "raise", i) =>
      /\ \A k \in 1 .. Len(active) : active[k].idx # i
      /\ \E j \in ItemsOf(i) :
           /\ ~items[j].success
           /\ items[j].error = Some("ACR invocation failed")
           /\ "elapsed" \in DOMAIN items[j]
           /\ items[j].elapsed = 0

\* C6: a success item with index i carries the document stored under the key
\* the runtime returned for payload i, and a non-negative elapsed time.
C6_SuccessItem ==
  \A j \in 1 .. Len(items) :
    items[j].success =>
      /\ \E k \in 1 .. Len(calls) :
           /\ calls[k].op = "submit" /\ calls[k].idx = items[j].index
           /\ calls[k].outcome = "ok"
           /\ items[j].result = Some(DocOf(calls[k].key))
      /\ "elapsed" \in DOMAIN items[j]
      /\ items[j].elapsed >= 0

\* C7: a GET (or parse) that failed for a job whose HEAD succeeded is reported
\* by a failure item with the job's index and the text of the exception; the
\* job leaves the active set at the end of the pass and the iteration goes on.
C7_GetFailureItem ==
  \A c \in 1 .. Len(calls) :
    (calls[c].op = "get" /\ calls[c].outcome = "error") =>
      /\ \E j \in 1 .. Len(items) :
           items[j] = BatchItem(FALSE, None, Some(GetError), calls[c].idx)
      /\ pc \in {"fill", "done"} =>
            \A k \in 1 .. Len(active) : active[k].idx # calls[c].idx
      /\ c = Len(calls) => pc # "raised"

\* A GET failed for the first of two jobs and the second was then yielded.
C7_Witness ==
  /\ Len(items) = 2
  /\ items[1] = BatchItem(FALSE, None, Some(GetError), 0)
  /\ items[2].index = 1 /\ items[2].success
  /\ Called("get", "error", 0)
  /\ pc = "done"

\* C8: two consecutive submissions through one client, from invoke or from a
\* batch, failed or not, are at least 1/tps_limit seconds apart.
C8_SubmissionSpacing ==
  \A j, k \in 1 .. Len(calls) :
    (j < k /\ calls[j].op = "submit" /\ calls[k].op = "submit") =>
      (calls[k].time - calls[j].time) * tps_limit >= TicksPerSecond

\* A failed invoke, then a batch whose first submission had to wait for the
\* rate limiter and whose second one followed as early as allowed.
C8_Witness ==
  /\ Len(SubmitCalls) = 3
  /\ SubmitCalls[1].idx = -1 /\ SubmitCalls[1].outcome = "raise"
  /\ SubmitCalls[2].idx = 0
  /\ SubmitCalls[2].time = SubmitCalls[1].time + SleepTicks(min_invoke_interval)
  /\ SubmitCalls[3].time = SubmitCalls[2].time + SleepTicks(min_invoke_interval)

\* C9: a batch submits its payloads in input order.
C9_SubmitInOrder ==
  \A j, k \in 1 .. Len(calls) :
    (j < k /\ calls[j].op = "submit" /\ calls[k].op = "submit"
       /\ calls[j].idx >= 0) =>
      calls[j].idx < calls[k].idx

\* Both payloads of a batch have been submitted.
C9_Witness ==
  /\ Len(BatchSubmits) = 2
  /\ BatchSubmits[1].idx = 0
  /\ BatchSubmits[2].idx = 1

SubmitsOf(i) ==
  {j \in 1 .. Len(calls) : calls[j].op = "submit" /\ calls[j].idx = i}

\* C28: a payload of a batch is submitted at most once, and exactly once
\* when the batch has run to its end, also when its submission failed; every
\* call of invoke or pass of the fill loop issues exactly one submit call.
C28_OneSubmitPerPayload ==
  /\ \A i \in Indexes :
       LET n == Cardinality(SubmitsOf(i))
       IN  /\ n <= 1
           /\ pc = "done" => n = 1
           /\ \A j \in SubmitsOf(i) :
                calls[j].outcome # "ok" => \E k \in ItemsOf(i) : ~items[k].success
  /\ 2 * Cardinality({j \in 1 .. Len(calls) : calls[j].op = "submit"}) = uuids

\* A batch of two has ended, the first submission having failed.
C28_Witness ==
  /\ pc = "done"
  /\ B.n = 2
  /\ Called("submit", "raise", 0)
  /\ Called("submit", "ok", 1)

\* C29: with max_concurrent_sessions = 1 the submit call for payload i + 1
\* is issued only after the item of payload i has been yielded.
C29_Serialized ==
  (batch # None /\ B.max_concurrent = 1) =>
    \A j \in 1 .. Len(calls) :
      (calls[j].op = "submit" /\ calls[j].idx >= 1) =>
        \E k \in 1 .. Len(items) : items[k].index = calls[j].idx - 1

\* Two payloads submitted one after the other, the first having succeeded.
C29_Witness ==
  /\ batch # None
  /\ B.max_concurrent = 1
  /\ Called("submit", "ok", 0)
  /\ Called("submit", "ok", 1)

(***************************************************************************)
(* Properties of a future                                                  *)
(***************************************************************************)
RECURSIVE Count404(_)
Count404(s) ==
  IF s = <<>> THEN 0
  ELSE (IF Head(s) = "404" THEN 1 ELSE 0) + Count404(Tail(s))

\* C10: after the k-th 404 answered to a future, its poll_interval equals
\* min(initial_interval * backoff_factor^k, max_interval).
C10_BackoffClosedForm ==
  (fut # None /\ Count404(polls) >= 1) =>
    fut[1].poll_interval =
      RMin(RMul(fut[1].initial_interval, RPow(fut[1].backoff_factor, Count404(polls))),
           fut[1].max_interval)

\* The spec's scenario: initial 1, factor 2, cap 10, four 404s, interval 10.
C10_Witness ==
  /\ fut # None
  /\ fut[1].initial_interval = <<1, 1>>
  /\ fut[1].backoff_factor = <<2, 1>>
  /\ fut[1].max_interval = <<10, 1>>
  /\ polls = <<"404", "404", "404", "404">>
  /\ fut[1].poll_interval = <<10, 1>>

\* The futures of a state: the caller's own and those of the running batch.
Futures ==
  (IF fut = None THEN {} ELSE {fut[1]})
    \cup {active[j].future : j \in 1 .. Len(active)}

\* C11: in every reachable state of a future, whatever backoff parameters it
\* was constructed with or given by the batch,
\* initial_interval <= poll_interval <= max_interval.
C11_IntervalWithinBounds ==
  \A f \in Futures :
    /\ RLeq(f.initial_interval, f.poll_interval)
    /\ RLeq(f.poll_interval, f.max_interval)

\* C11 as amended: the bounds hold for every future whose parameters satisfy
\* initial_interval <= max_interval and backoff_factor >= 1.
C11_IntervalWithinSaneBounds ==
  \A f \in Futures :
    (RLeq(f.initial_interval, f.max_interval) /\ RLeq(Rat(1), f.backoff_factor)) =>
      /\ RLeq(f.initial_interval, f.poll_interval)
      /\ RLeq(f.poll_interval, f.max_interval)

\* A future that has backed off from its initial interval up to the cap.
C11_Witness ==
  /\ fut # None
  /\ RLt(fut[1].initial_interval, fut[1].max_interval)
  /\ Count404(polls) >= 1
  /\ fut[1].poll_interval = fut[1].max_interval

(***************************************************************************)
(* Properties of the methods of a future                                   *)
(***************************************************************************)
CancelCalls == {j \in 1 .. Len(returns) : returns[j].op = "cancel"}

\* C12: of two calls of cancel() on a future the first returns true or false
\* (whether the remote stop succeeded) and every later one returns false, the
\* remote stop being issued at most once.
C12_CancelTwice ==
  \A i \in CancelCalls :
    /\ returns[i].ret \in {"true", "false"}
    /\ \A j \in CancelCalls : i < j => returns[j].ret = "false"

\* C13: once cancel() has been called on a future, done() returns true,
\* result() fails with a cancellation error, and no HEAD and no GET is issued
\* for that future any more.
C13_NoRequestAfterCancel ==
  \A i \in CancelCalls :
    /\ \A j \in i + 1 .. Len(returns) :
         /\ returns[j].heads = 0
         /\ returns[j].gets = 0
         /\ returns[j].op = "done" => returns[j].ret = "true"
         /\ returns[j].op = "result" =>
              returns[j].ret = "raise" /\ returns[j].error = "CancelledError"
    /\ (i = Len(returns) /\ rcall # None) => rcall[1].heads = 0

\* C14: the first cancel() marks the future cancelled in every case; on a
\* future with no transport handle bound, as every future the client builds,
\* it returns false.
C14_FirstCancelMarks ==
  CancelCalls # {} =>
    /\ "cancelled" \in DOMAIN fut[1]
    /\ fut[1].cancelled
    /\ \A i \in CancelCalls :
         (\A j \in CancelCalls : i <= j) => returns[i].ret = "false"

\* C15: once a HEAD for a future has succeeded the done flag stays true, no
\* further HEAD is issued, and every later done() returns true.
C15_DoneIsSticky ==
  /\ (\E k \in 1 .. Len(polls) : polls[k] = "ok") =>
       /\ fut[1].done
       /\ \A k \in 1 .. Len(polls) : polls[k] = "ok" <=> k = Len(polls)
  /\ \A i \in 1 .. Len(returns) :
       (returns[i].op = "done" /\ returns[i].ret = "true") =>
         \A j \in i + 1 .. Len(returns) :
           /\ returns[j].heads = 0
           /\ returns[j].op = "done" => returns[j].ret = "true"

\* done() has returned true twice, the second time without a HEAD.
C15_Witness ==
  /\ Len(returns) >= 2
  /\ returns[1].op = "done" /\ returns[1].ret = "true" /\ returns[1].heads = 1
  /\ returns[2].op = "done" /\ returns[2].ret = "true" /\ returns[2].heads = 0

ResultValues == {j \in 1 .. Len(returns) :
                   returns[j].op = "result" /\ returns[j].ret = "value"}

\* C16: after result() has returned once, every later result() returns the
\* same value and issues neither a HEAD nor a GET, whatever document the
\* object holds.
C16_ResultCached ==
  \A i \in ResultValues :
    \A j \in i + 1 .. Len(returns) :
      returns[j].op = "result" =>
        /\ returns[j].ret = "value"
        /\ returns[j].value = returns[i].value
        /\ returns[j].heads = 0
        /\ returns[j].gets = 0

\* C16 as amended: the same, after result() has returned a document other
\* than null; that document is the cached result from then on.
C16_NonNullResultCached ==
  \A i \in ResultValues :
    returns[i].value # None =>
      /\ fut[1].result = returns[i].value
      /\ rcall = None
      /\ \A j \in i + 1 .. Len(returns) :
           returns[j].op = "result" =>
             /\ returns[j].ret = "value"
             /\ returns[j].value = returns[i].value
             /\ returns[j].heads = 0
             /\ returns[j].gets = 0

\* result() has fetched a document and a second result() has returned it
\* from the cache.
C16_Witness ==
  /\ Len(returns) >= 2
  /\ returns[1].op = "result" /\ returns[1].gets = 1
  /\ returns[1].value = Some(DocOf(1))
  /\ returns[2].op = "result" /\ returns[2].gets = 0
  /\ returns[2].value = Some(DocOf(1))

\* C17: when the HEAD of a done() fails with an error other than 404, done()
\* raises that error and leaves the future as it was.
C17_HeadErrorFrame ==
  [][(/\ fut # None
      /\ Len(returns') = Len(returns) + 1
      /\ returns'[Len(returns')].op = "done"
      /\ polls' = Append(polls, "error"))
     => (/\ returns'[Len(returns')].ret = "raise"
         /\ returns'[Len(returns')].error = "ClientError"
         /\ fut' = fut)]_vars

\* A future that has backed off once, and the HEAD of its next done() failed.
C17_Witness ==
  /\ polls = <<"404", "error">>
  /\ returns[2].ret = "raise"
  /\ ~fut[1].done
  /\ fut[1].last_poll_time # 0

\* C18: a result(timeout=T) with T not None goes on polling only while no
\* more than T has elapsed since the call, and fails with the timeout error
\* only after more than T has elapsed.
C18_TimeoutEndsPolling ==
  /\ (rcall # None /\ rcall[1].timeout # None /\ rcall[1].checked # None) =>
       RLeq(Seconds(rcall[1].checked[1] - rcall[1].start), rcall[1].timeout[1])
  /\ \A j \in 1 .. Len(returns) :
       returns[j].error = "TimeoutError" =>
         /\ returns[j].timeout # None
         /\ RLeq(returns[j].timeout[1], Seconds(returns[j].elapsed))

\* C19: a future that has had no 404 yet is ready to poll; after a 404 at
\* time t it is ready exactly from t + poll_interval on, the time to wait
\* being max(0, poll_interval - (now - t)); a done future has an infinite
\* time to wait and is never ready.
C19_ReadyToPoll ==
  fut # None =>
    LET f == fut[1]
        since == Seconds(clock - f.last_poll_time)
    IN  /\ f.done =>
             time_until_next_poll(f, clock) = Inf /\ ~ready_to_poll(f, clock)
        /\ (~f.done /\ Count404(polls) = 0) => ready_to_poll(f, clock)
        /\ (~f.done /\ Count404(polls) > 0) =>
             /\ ready_to_poll(f, clock) <=> RLeq(f.poll_interval, since)
             /\ RLeq(f.poll_interval, since) =>
                  time_until_next_poll(f, clock) = Rat(0)
             /\ RLt(since, f.poll_interval) =>
                  time_until_next_poll(f, clock) = RSub(f.poll_interval, since)

\* A future that had to wait after a 404 and is ready again.
C19_Witness ==
  /\ fut # None
  /\ ~fut[1].done
  /\ Count404(polls) > 0
  /\ clock > fut[1].last_poll_time
  /\ ready_to_poll(fut[1], clock)

(***************************************************************************)
(* Properties of the client against the entrypoint                         *)
(***************************************************************************)
\* C20: every submission carries the rollout config the client built under
\* the key "_rollout", is answered with status, s3_bucket and result_key, and
\* the future returned polls the key of that answer.
C20_ConfigUnderRolloutKey ==
  \A j \in 1 .. Len(exchanges) :
    LET e == exchanges[j]
    IN  /\ "_rollout" \in DOMAIN e.payload
        /\ DOMAIN e.payload["_rollout"] = DOMAIN e.config
        /\ DOMAIN e.reply = {"status", "s3_bucket", "result_key"}
        /\ e.reply.result_key = ResultKey(e.config)
        /\ j = Len(exchanges) =>
             fut # None /\ fut[1].result_key = e.reply.result_key

\* C27: whatever extra_config the client was given, the rollout config sent
\* by invoke carries the client's exp_id and s3_bucket, the session_id the
\* transport is called with and the input_id of the call, base_url and
\* model_id iff set on the client, and the fields of extra_config.
C27_RolloutConfigFields ==
  \A j \in 1 .. Len(exchanges) :
    LET e == exchanges[j]
        rc == e.payload["_training"]
    IN  /\ rc.exp_id = config.exp_id
        /\ rc.s3_bucket = config.s3_bucket
        /\ rc.session_id = e.session
        /\ rc.input_id = e.input
        /\ "base_url" \in DOMAIN rc <=> config.base_url # None
        /\ "model_id" \in DOMAIN rc <=> config.model_id # None
        /\ config.base_url # None => rc.base_url = config.base_url[1]
        /\ config.model_id # None => rc.model_id = config.model_id[1]
        /\ \A k \in DOMAIN config.extra_config : rc[k] = config.extra_config[k]

\* C27 as amended: the same for every extra_config that names neither
\* session_id nor input_id.
C27_RolloutConfigFieldsNoIdExtra ==
  {"session_id", "input_id"} \cap DOMAIN config.extra_config = {} =>
    C27_RolloutConfigFields

\* An invoke with ids given, on a client with base_url, model_id and an
\* extra temperature.
C27_Witness ==
  /\ Len(exchanges) = 1
  /\ config = ClientConfig(Some("http://vllm"), Some("model"), [temperature |-> 7])
  /\ exchanges[1].session = <<"s1">>
  /\ exchanges[1].input = <<"i1">>
  /\ exchanges[1].payload["_training"].temperature = 7

(***************************************************************************)
(* The server's responses and the objects it writes                        *)
(***************************************************************************)
\* The requests that carry a rollout config, and what the config has of the
\* four storage fields.
HasRollout(payload) == "_rollout" \in DOMAIN payload
StorageFields(payload) == DOMAIN payload["_rollout"] \cap RequiredFields
CompleteRollout(payload) ==
  HasRollout(payload) /\ StorageFields(payload) = RequiredFields

\* The put_object calls of task t, as positions in puts.
PutsOf(t) == { i \in 1 .. Len(puts) : puts[i].task = t }

\* "{exp_id}/{input_id}_{session_id}.json" of a config.
KeyOf(cfg) ==
  cfg.exp_id \o <<"/">> \o cfg.input_id \o <<"_">> \o cfg.session_id \o <<".json">>

\* Task t has run to its end.
Finished(t) == t <= Len(tasks) /\ tasks[t].state # "created"

\* C21: for each submission whose payload carries a complete rollout config,
\* the background task eventually ends having written exactly one object, to
\* exp_id/input_id_session_id.json in s3_bucket, whatever the handler did,
\* as long as no put_object call of the task failed.
C21_EventuallyOneObject ==
  \A t \in 1 .. MaxRequests :
    (t <= Len(tasks) /\ CompleteRollout(tasks[t].payload)) ~>
      /\ Finished(t)
      /\ (\A i \in PutsOf(t) : puts[i].outcome = "ok") =>
           /\ Cardinality(PutsOf(t)) = 1
           /\ \A i \in PutsOf(t) :
                /\ puts[i].key = KeyOf(tasks[t].payload["_rollout"])
                /\ puts[i].bucket = tasks[t].payload["_rollout"].s3_bucket

\* A task whose handler raised has ended with one object written.
C21_Witness ==
  \E t \in 1 .. Len(tasks) :
    /\ CompleteRollout(tasks[t].payload)
    /\ Finished(t)
    /\ tasks[t].handler[1].kind = "raise"
    /\ Cardinality(PutsOf(t)) = 1
    /\ \A i \in PutsOf(t) : puts[i].outcome = "ok"

\* C22: a request with a complete rollout config is answered with status
\* "processing", the config's s3_bucket and the key
\* exp_id/input_id_session_id.json, and every object its background task
\* stores goes to that bucket and key; a request without a rollout config is
\* answered with the status alone.
C22_ResponseNamesStoredKey ==
  \A j \in 1 .. Len(exchanges) :
    LET e == exchanges[j]
    IN  /\ CompleteRollout(e.payload) =>
             /\ e.reply = [status |-> "processing",
                           s3_bucket |-> e.payload["_rollout"].s3_bucket,
                           result_key |-> KeyOf(e.payload["_rollout"])]
             /\ e.task # 0
             /\ \A i \in PutsOf(e.task) :
                  /\ puts[i].key = e.reply.result_key
                  /\ puts[i].bucket = e.reply.s3_bucket
                  /\ puts[i].body["result_key"] = e.reply.result_key
        /\ ~HasRollout(e.payload) => e.reply = [status |-> "processing"]

\* The task of a request with a complete config has stored its result.
C22_Witness ==
  \E j \in 1 .. Len(exchanges) :
    /\ CompleteRollout(exchanges[j].payload)
    /\ \E i \in PutsOf(exchanges[j].task) :
         puts[i].outcome = "ok" /\ puts[i].path = "success"

\* C23: a request whose rollout config has none of the four storage fields
\* is answered with the status alone and its handler is run in the
\* background.
C23_StorageFreeConfigAccepted ==
  \A j \in 1 .. Len(exchanges) :
    (HasRollout(exchanges[j].payload) /\ StorageFields(exchanges[j].payload) = {}) =>
      /\ exchanges[j].reply = [status |-> "processing"]
      /\ exchanges[j].task # 0

\* C24: a request whose rollout config has some but not all of the four
\* storage fields is answered with the error "Missing required rollout
\* config field" naming a field the config lacks; no task is started for it,
\* so that every task, and every object written, belongs to another request.
C24_PartialConfigRejected ==
  /\ \A j \in 1 .. Len(exchanges) :
       LET e == exchanges[j]
       IN  (/\ HasRollout(e.payload)
            /\ StorageFields(e.payload) # {}
            /\ StorageFields(e.payload) # RequiredFields) =>
             /\ DOMAIN e.reply = {"error", "field"}
             /\ e.reply.error = "Missing required rollout config field"
             /\ e.reply.field \in RequiredFields \ DOMAIN e.payload["_rollout"]
             /\ e.task = 0
  /\ Len(tasks) = Cardinality({ j \in 1 .. Len(exchanges) : exchanges[j].task # 0 })
  /\ \A i \in 1 .. Len(puts) :
       \E j \in 1 .. Len(exchanges) : exchanges[j].task = puts[i].task

\* A config with exp_id but neither session_id nor input_id was rejected.
C24_Witness ==
  \E j \in 1 .. Len(exchanges) :
    /\ HasRollout(exchanges[j].payload)
    /\ StorageFields(exchanges[j].payload) = {"exp_id", "s3_bucket"}
    /\ "error" \in DOMAIN exchanges[j].reply

\* The handler's outcome h is a return value the server does not accept.
InvalidReturn(h) ==
  /\ h.kind = "return"
  /\ \/ h.value.type # "dict"
     \/ "rollout_data" \notin DOMAIN h.value.v
     \/ "rewards" \notin DOMAIN h.value.v
     \/ h.value.v["rollout_data"].type # "list"
     \/ Len(h.value.v["rollout_data"].v) = 0
     \/ /\ h.value.v["rewards"].type = "list"
        /\ Len(h.value.v["rewards"].v) # 1
        /\ Len(h.value.v["rewards"].v) # Len(h.value.v["rollout_data"].v)

\* C25: when the handler of a submission with a complete rollout config
\* returned a value that is not a dict, lacks rollout_data or rewards, has an
\* empty or non-list rollout_data, or rewards of a length that is neither 1
\* nor that of rollout_data, the task wrote an object, and every object it
\* wrote has status_code 500 and no rollout_data.
C25_InvalidRolloutNotStored ==
  \A t \in 1 .. Len(tasks) :
    (/\ Finished(t)
     /\ CompleteRollout(tasks[t].payload)
     /\ InvalidReturn(tasks[t].handler[1])) =>
      /\ PutsOf(t) # {}
      /\ \A i \in PutsOf(t) :
           /\ puts[i].body["status_code"] = PyNum(500)
           /\ "rollout_data" \notin DOMAIN puts[i].body

\* A handler returned two steps with three rewards and the error object is
\* in the store.
C25_Witness ==
  \E t \in 1 .. Len(tasks) :
    /\ Finished(t)
    /\ CompleteRollout(tasks[t].payload)
    /\ tasks[t].handler[1].kind = "return"
    /\ tasks[t].handler[1].value.type = "dict"
    /\ {"rollout_data", "rewards"} \subseteq DOMAIN tasks[t].handler[1].value.v
    /\ tasks[t].handler[1].value.v["rollout_data"].type = "list"
    /\ Len(tasks[t].handler[1].value.v["rollout_data"].v) = 2
    /\ tasks[t].handler[1].value.v["rewards"].type = "list"
    /\ Len(tasks[t].handler[1].value.v["rewards"].v) = 3
    /\ \E i \in PutsOf(t) : puts[i].outcome = "ok"

\* The body of an object has rollout data and rewards of the stored shape.
StoredShape(body) ==
  /\ {"rollout_data", "rewards"} \subseteq DOMAIN body
  /\ body["rollout_data"].type = "list"
  /\ Len(body["rollout_data"].v) >= 1
  /\ body["rewards"].type = "list"
  /\ Len(body["rewards"].v) \in {1, Len(body["rollout_data"].v)}

\* C26 as stated: every object written has status_code and stop_reason; on
\* the success path status_code is 200 and the rollout has the stored shape;
\* on a failure path status_code is not 200.
C26_StatusOfObjects ==
  \A i \in 1 .. Len(puts) :
    /\ {"status_code", "stop_reason"} \subseteq DOMAIN puts[i].body
    /\ puts[i].path = "success" =>
         puts[i].body["status_code"] = PyNum(200) /\ StoredShape(puts[i].body)
    /\ puts[i].path = "failure" => puts[i].body["status_code"] # PyNum(200)

\* C26, amended: every object written has status_code and stop_reason; on
\* the success path the rollout has the stored shape and status_code is the
\* one the handler returned, 200 if it returned none; on a failure path
\* status_code is 500.
C26_StatusOfObjectsHandlerFirst ==
  \A i \in 1 .. Len(puts) :
    LET returned == tasks[puts[i].task].handler[1].value.v
    IN  /\ {"status_code", "stop_reason"} \subseteq DOMAIN puts[i].body
        /\ puts[i].path = "success" =>
             /\ StoredShape(puts[i].body)
             /\ puts[i].body["status_code"] =
                  IF "status_code" \in DOMAIN returned
                    THEN returned["status_code"] ELSE PyNum(200)
        /\ puts[i].path = "failure" => puts[i].body["status_code"] = PyNum(500)

\* A rollout whose handler set status_code 404 was stored on the success
\* path.
C26_Witness ==
  \E i \in 1 .. Len(puts) :
    /\ puts[i].path = "success"
    /\ puts[i].outcome = "ok"
    /\ puts[i].body["status_code"] = PyNum(404)

(***************************************************************************)
(* The region of a client                                                  *)
(***************************************************************************)
\* The positions of the separators in arn, and the field after the third.
Colons == { i \in 1 .. Len(arn) : arn[i] = ":" }
ThirdColon == CHOOSE i \in Colons : Cardinality({ j \in Colons : j < i }) = 2
FourthField ==
  LET later == { j \in Colons : j > ThirdColon }
      end == IF later = {} THEN Len(arn) + 1
             ELSE CHOOSE j \in later : \A k \in later : j <= k
  IN  SubSeq(arn, ThirdColon + 1, end - 1)

\* C30: the region of a constructed client is the fourth colon-separated
\* field of its ARN and both of its boto3 clients are made for that region;
\* an ARN with fewer than four fields or an empty fourth field makes the
\* constructor raise ValueError with no boto3 client made.
C30_RegionFromArn ==
  built # None =>
    IF Cardinality(Colons) >= 3 /\ FourthField # <<>>
      THEN /\ built[1].raised = ""
           /\ built[1].region = Some(FourthField)
           /\ Cardinality(built[1].clients) = 2
           /\ \A c \in built[1].clients : c.region_name = FourthField
      ELSE /\ built[1].raised = "ValueError"
           /\ built[1].clients = {}

\* An ARN of five fields with an empty fourth was rejected.
C30_Witness ==
  /\ built # None
  /\ Cardinality(Colons) = 4
  /\ FourthField = <<>>
  /\ built[1].raised = "ValueError"

\* C40: the task of a request without a rollout config never calls
\* put_object, whether its handler returned a value or raised.
C40_FireAndForgetWritesNothing ==
  \A t \in 1 .. Len(tasks) : ~HasRollout(tasks[t].payload) => PutsOf(t) = {}

\* The handler of a request without a rollout config returned a valid
\* rollout and its task is over.
C40_Witness ==
  \E t \in 1 .. Len(tasks) :
    /\ ~HasRollout(tasks[t].payload)
    /\ Finished(t)
    /\ tasks[t].handler[1].kind = "return"
    /\ tasks[t].handler[1].value.type = "dict"
    /\ ValidationError(tasks[t].handler[1].value.v) = ""

(***************************************************************************)
(* The batch engine: polling, sleeping and the active set                  *)
(***************************************************************************)
\* The interval of a batch future after k answers of 404: the batch initial
\* interval grown k times by the batch factor, up to the batch cap.
BatchInterval(k) ==
  RMin(RMul(B.initial_interval, RPow(B.backoff_factor, k)), B.max_interval)

\* The HEADs of job i answered 404, as positions in calls.
Heads404(i) ==
  { j \in 1 .. Len(calls) :
      calls[j].op = "head" /\ calls[j].idx = i /\ calls[j].outcome = "404" }

\* C35: every future in the active set of a batch has the initial_interval,
\* max_interval and backoff_factor of the batch, and its poll_interval is
\* the batch initial_interval multiplied by the batch factor once for each
\* 404 it got, capped at the batch max_interval.
C35_BatchBackoffSettings ==
  \A j \in 1 .. Len(active) :
    LET f == active[j].future
    IN  /\ f.initial_interval = B.initial_interval
        /\ f.max_interval = B.max_interval
        /\ f.backoff_factor = B.backoff_factor
        /\ f.poll_interval = BatchInterval(Cardinality(Heads404(active[j].idx)))

\* An active future of a batch got 404s until its interval met the batch
\* cap, which the defaults of invoke would not have met yet.
C35_Witness ==
  \E j \in 1 .. Len(active) :
    LET k == Cardinality(Heads404(active[j].idx))
    IN  /\ k >= 2
        /\ active[j].future.poll_interval = B.max_interval
        /\ RLt(B.max_interval, RMul(B.initial_interval, RPow(B.backoff_factor, k)))
        /\ RLt(B.max_interval,
               RMul(DefaultInitialInterval, RPow(DefaultBackoffFactor, k)))

\* C36: a batch submission whose reply lacks s3_bucket or result_key is
\* reported by a failure item with the payload's index, and no future of
\* that payload is in the active set or gets a HEAD or a GET.
C36_ReplyWithoutKeyFails ==
  \A i \in Indexes :
    Called("submit", "nokey", i) =>
      /\ \E j \in ItemsOf(i) : ~items[j].success /\ items[j].error # None
      /\ \A j \in 1 .. Len(active) : active[j].idx # i
      /\ \A j \in 1 .. Len(calls) :
           calls[j].idx = i => calls[j].op = "submit"

\* The reply to payload 0 had no key, and payload 1 is being polled.
C36_Witness ==
  /\ Called("submit", "nokey", 0)
  /\ Called("head", "404", 1)

\* C31: a job whose HEAD succeeded has been yielded: no state lies between
\* the successful HEAD and the item, so neither a sleep nor the poll of
\* another job, done or not, comes before the yield.
C31_YieldedWhenHeadSucceeds ==
  \A i \in Indexes :
    Called("head", "ok", i) =>
      /\ ItemsOf(i) # {}
      /\ \A j \in 1 .. Len(calls) :
           (calls[j].op = "head" /\ calls[j].outcome = "ok" /\ calls[j].idx = i) =>
             /\ j < Len(calls)
             /\ calls[j + 1].op = "get"
             /\ calls[j + 1].idx = i
             /\ calls[j + 1].time = calls[j].time

\* Job 1 has been yielded while job 0, polled before it in the same pass, is
\* still waiting for its object.
C31_Witness ==
  /\ \E j \in ItemsOf(1) : items[j].success
  /\ ItemsOf(0) = {}
  /\ \E j \in 1 .. Len(active) : active[j].idx = 0
  /\ \E j, k \in 1 .. Len(calls) :
       /\ j < k
       /\ calls[j].op = "head" /\ calls[j].idx = 0 /\ calls[j].outcome = "404"
       /\ calls[k].op = "head" /\ calls[k].idx = 1 /\ calls[k].outcome = "ok"
       /\ calls[j].time = calls[k].time

\* C33: of two HEADs for the same job of a batch, the earlier one was
\* answered 404, and the later one comes no sooner after it than the
\* poll_interval that 404 put in force: the batch interval after as many
\* backoffs as the job had got 404s by then.
C33_HeadAfterDeadline ==
  \A j, k \in 1 .. Len(calls) :
    (/\ j < k
     /\ calls[j].op = "head" /\ calls[k].op = "head"
     /\ calls[j].idx >= 0 /\ calls[j].idx = calls[k].idx) =>
      /\ calls[j].outcome = "404"
      /\ RLeq(BatchInterval(Cardinality({ h \in Heads404(calls[j].idx) : h <= j })),
              Seconds(calls[k].time - calls[j].time))

\* A job was polled, answered 404, and polled again when its interval had
\* passed.
C33_Witness ==
  \E j, k \in 1 .. Len(calls) :
    /\ j < k
    /\ calls[j].op = "head" /\ calls[k].op = "head"
    /\ calls[j].idx >= 0 /\ calls[j].idx = calls[k].idx
    /\ calls[k].outcome = "ok"

\* C34: at the end of a pass of the outer loop the engine sleeps only if a
\* job is left in the active set and none completed in the pass, and then
\* for the time until the earliest next poll of an active future, no longer
\* than any of them has to wait.
C34_SleepsUntilEarliestDeadline ==
  [][ (pc = "poll" /\ pc' \in {"fill", "done"}) =>
        LET waits == { SleepTicks(time_until_next_poll(active'[j].future, clock)) :
                         j \in 1 .. Len(active') }
        IN  IF active' # <<>> /\ completed_keys = <<>>
              THEN /\ clock' - clock \in waits
                   /\ \A w \in waits : clock' - clock <= w
              ELSE clock' = clock ]_vars

\* Two jobs answered 404 at different times are active and the engine is
\* back at the fill phase at the instant the earlier one can be polled.
C34_Witness ==
  /\ pc = "fill"
  /\ Len(active) = 2
  /\ \A j \in 1 .. 2 : active[j].future.last_poll_time > 0
  /\ active[1].future.last_poll_time < active[2].future.last_poll_time
  /\ time_until_next_poll(active[1].future, clock) = Rat(0)
  /\ RLt(Rat(0), time_until_next_poll(active[2].future, clock))
  /\ RLt(Rat(0), time_until_next_poll(active[1].future, clock - 1))

\* C39: every HEAD and every GET of a batch is for a job that has not been
\* yielded yet, and a GET is the first GET of its job and follows a HEAD of
\* the same job and key that succeeded.
C39_GetOnceAfterHead ==
  [][ \A j \in Len(calls) + 1 .. Len(calls') :
        LET c == calls'[j]
        IN  (c.op \in {"head", "get"} /\ c.idx >= 0) =>
              /\ ItemsOf(c.idx) = {}
              /\ c.op = "get" =>
                   /\ \E h \in 1 .. j - 1 :
                        /\ calls'[h].op = "head" /\ calls'[h].outcome = "ok"
                        /\ calls'[h].idx = c.idx /\ calls'[h].key = c.key
                   /\ \A g \in 1 .. j - 1 :
                        ~(calls'[g].op = "get" /\ calls'[g].idx = c.idx) ]_vars

\* Job 0 was polled twice, fetched and yielded, and job 1 was polled after
\* that.
C39_Witness ==
  /\ ItemsOf(0) # {}
  /\ \E h, g, k \in 1 .. Len(calls) :
       /\ h < g /\ g < k
       /\ calls[h].op = "head" /\ calls[h].idx = 0 /\ calls[h].outcome = "404"
       /\ calls[g].op = "get" /\ calls[g].idx = 0
       /\ calls[k].op = "head" /\ calls[k].idx = 1

\* C37: a job whose submission succeeded and that has not been yielded is
\* in the active set, whatever keys the runtime named in its replies.
C37_ActiveUntilYielded ==
  \A i \in Indexes :
    (Called("submit", "ok", i) /\ ItemsOf(i) = {}) =>
      \E j \in 1 .. Len(active) : active[j].idx = i

\* C38: every pass of the outer loop that comes to its end has submitted a
\* payload, yielded an item or removed a job from the active set, or ends
\* with a sleep of a positive time.
C38_PassMakesProgress ==
  [][ (pc = "poll" /\ pc' \in {"fill", "done"}) =>
        \/ submitted > 0
        \/ completed_keys # <<>>
        \/ clock' > clock ]_vars

\* C32: the iteration of a batch with max_concurrent_sessions >= 1, in which
\* every HEAD is answered with success or 404 and every object appears,
\* comes to its end with pending and active both empty; over an empty
\* payload list it ends with nothing submitted and nothing yielded.
C32_IterationTerminates ==
  (batch # None /\ ~B.timeout /\ B.max_concurrent >= 1) ~>
    /\ pc = "done"
    /\ pending = <<>>
    /\ active = <<>>
    /\ B.n = 0 => (calls = <<>> /\ items = <<>>)

\* A batch of two payloads, one at a time, has ended after a job had to be
\* polled twice.
C32_Witness ==
  /\ pc = "done"
  /\ B.n = 2
  /\ B.max_concurrent = 1
  /\ Len(items) = 2
  /\ \E i \in Indexes : Heads404(i) # {}

====
